---- MODULE Spec2Model ----
(***************************************************************************)
(* State-machine model of the votopreferencial/zk ballot programs:         *)
(*   - the Fabric chaincode (InitElection / CastVote / CountVotes /        *)
(*     GetElectionResults) working on the ledger key "election";           *)
(*   - the Solidity contract STVVote (vote / countVotes);                  *)
(*   - the Solidity contract STVContract (vote / calculateSTVTally);       *)
(*   - the flat-weighted tally calcularTotais of tallying.go.              *)
(* The programs are independent deployments; the variable `program`        *)
(* records which one a behaviour is about.                                 *)
(***************************************************************************)
EXTENDS Integers, Sequences, FiniteSets, TLC

\* ---------------------------------------------------------------- bounds
MaxSeats == 2
MaxPrefLen == 2
MaxQuorum == 2

\* Voter identities / sender addresses (the ids the chaincode tests use).
Voters == {"voter1", "voter2"}
\* The candidate names the tests register; a roster is a prefix of this list.
CandidateNames == <<"Alice", "Bob">>
\* Solidity's default value of an address-typed field.
AddressZero == "0x0"

RosterSizes == 0..Len(CandidateNames)
SeatChoices == 0..MaxSeats
QuorumChoices == 0..MaxQuorum
\* A submitted preference entry: an index into the list of names (an index
\* outside the roster whenever the roster is a proper prefix of the list).
PrefValues == 0..(Len(CandidateNames) - 1)

RECURSIVE SeqsUpTo(_, _)
SeqsUpTo(S, n) ==
    IF n = 0 THEN {<<>>}
    ELSE LET shorter == SeqsUpTo(S, n - 1)
         IN  shorter \cup {Append(s, x) : s \in {t \in shorter : Len(t) = n - 1}, x \in S}

PrefChoices == SeqsUpTo(PrefValues, MaxPrefLen)

VARIABLES
    program,        \* which program is deployed
    call,           \* the last call made: its handler and its voter / sender
    ret,            \* error string returned by the last finished call ("" = nil)
    retval,         \* the values it returned besides the error, as a tuple
    pc,             \* position of the running count ("idle" when none runs)
    quota,          \* local `quota` of the running count
    \* --- chaincode
    ledger,         \* world state under key "election": {} or {Election}
    election,       \* CountVotes' unmarshalled local copy
    seatsRemaining, \* CountVotes' loop counter
    tx,             \* the CastVote transactions in flight: position and locals
    \* --- Solidity contracts (STVVote and STVContract)
    owner, candidates, totalVotes,
    ballots, seats, \* STVVote only
    voters, quorum, \* STVContract only
    checkpoint,     \* storage at the start of the running transaction
    \* --- flat-weighted tally (calcularTotais)
    votos, candidatasValidas, pesos, \* arguments of the last call
    resultados      \* the list it returned

ccVars  == <<ledger, election, seatsRemaining, tx>>
solVars == <<owner, candidates, totalVotes, ballots, seats, voters, quorum, checkpoint>>
flatVars == <<votos, candidatasValidas, pesos, resultados>>
vars    == <<program, call, ret, retval, pc, quota, ledger, election, seatsRemaining, tx,
             owner, candidates, totalVotes, ballots, seats, voters, quorum, checkpoint,
             votos, candidatasValidas, pesos, resultados>>

\* ------------------------------------------------------------ error values
Nil == ""
\* A call of handler op; who is the voter argument (chaincode) or msg.sender.
Call(op, who) == [op |-> op, who |-> who]
NoOne == ""
\* A call that returns no value besides its error (or fails).
NoValue == <<>>
ErrNoElection == "election does not exist"
ErrAlreadyVoted == "voter has already voted"
ErrPanic == "panic: index out of range"

\* ============================================================== chaincode
\* Candidate{Name, VoteCount: 0} for each name, in order.
NewCandidates(n) == [i \in 1..n |-> [Name |-> CandidateNames[i], VoteCount |-> 0]]

\* An election created with a vote total of 1 and no ballot.
NewElectionOneVote(n, s) ==
    [Candidates |-> NewCandidates(n), Seats |-> s, TotalVotes |-> 1, Ballots |-> <<>>]

NewElection(n, s) ==
    [Candidates |-> NewCandidates(n), Seats |-> s, TotalVotes |-> 0, Ballots |-> <<>>]

\* Value of the locals of CountVotes while no CountVotes runs.
NoLocal == NewElection(0, 0)

\* GetState("election")
Stored == CHOOSE e \in ledger : TRUE

InitElection(n, s) ==
    /\ program = "chaincode" /\ pc = "idle"
    /\ call' = Call("InitElection", NoOne)
    /\ retval' = NoValue
    /\ ledger' = {NewElection(n, s)}
    /\ ret' = Nil
    /\ UNCHANGED <<program, pc, quota, election, seatsRemaining>>
    /\ UNCHANGED <<solVars, flatVars, tx>>

HasVoted(e, voter) == \E i \in 1..Len(e.Ballots) : e.Ballots[i].Voter = voter

\* CastVote that also adds the vote to the total of its first preference.
CastVoteTallied(voter, preferences) ==
    /\ program = "chaincode" /\ pc = "idle"
    /\ call' = Call("CastVote", voter)
    /\ retval' = NoValue
    /\ IF ledger = {}
       THEN /\ ret' = ErrNoElection
            /\ UNCHANGED ledger
       ELSE IF HasVoted(Stored, voter)
       THEN /\ ret' = ErrAlreadyVoted
            /\ UNCHANGED ledger
       ELSE /\ ledger' = {[Stored EXCEPT
                             !.Candidates = [i \in 1..Len(@) |->
                                 IF preferences # <<>> /\ preferences[1] = i - 1
                                 THEN [@[i] EXCEPT !.VoteCount = @ + 1] ELSE @[i]],
                             !.Ballots = Append(@, [Voter |-> voter,
                                                    Preferences |-> preferences,
                                                    Voted |-> TRUE]),
                             !.TotalVotes = @ + 1]}
            /\ ret' = Nil
    /\ UNCHANGED <<program, pc, quota, election, seatsRemaining>>
    /\ UNCHANGED <<solVars, flatVars, tx>>

\* CastVote without the loop that looks for the voter among election.Ballots.
CastVoteNoDupCheck(voter, preferences) ==
    /\ program = "chaincode" /\ pc = "idle"
    /\ call' = Call("CastVote", voter)
    /\ retval' = NoValue
    /\ IF ledger = {}
       THEN /\ ret' = ErrNoElection
            /\ UNCHANGED ledger
       ELSE /\ ledger' = {[Stored EXCEPT
                             !.Ballots = Append(@, [Voter |-> voter,
                                                    Preferences |-> preferences,
                                                    Voted |-> TRUE]),
                             !.TotalVotes = @ + 1]}
            /\ ret' = Nil
    /\ UNCHANGED <<program, pc, quota, election, seatsRemaining>>
    /\ UNCHANGED <<solVars, flatVars, tx>>

CastVote(voter, preferences) ==
    /\ program = "chaincode" /\ pc = "idle"
    /\ call' = Call("CastVote", voter)
    /\ retval' = NoValue
    /\ IF ledger = {}
       THEN /\ ret' = ErrNoElection
            /\ UNCHANGED ledger
       ELSE IF HasVoted(Stored, voter)
       THEN /\ ret' = ErrAlreadyVoted
            /\ UNCHANGED ledger
       ELSE /\ ledger' = {[Stored EXCEPT
                             !.Ballots = Append(@, [Voter |-> voter,
                                                    Preferences |-> preferences,
                                                    Voted |-> TRUE]),
                             !.TotalVotes = @ + 1]}
            /\ ret' = Nil
    /\ UNCHANGED <<program, pc, quota, election, seatsRemaining>>
    /\ UNCHANGED <<solVars, flatVars, tx>>

\* ---- CountVotes, one action per stage of the handler ---------------------
\* Loop test of `for seatsRemaining := election.Seats; seatsRemaining > 0; {`.
AfterTest(sr) == IF sr > 0 THEN "count" ELSE "put"

\* quota := election.TotalVotes / (election.Seats + 1)
CCQuota(totalValidVotes, s) == totalValidVotes \div (s + 1)

\* CountVotes without the test `electionJSON == nil`.
CountVotesBeginUnchecked ==
    /\ program = "chaincode" /\ pc = "idle"
    /\ call' = Call("CountVotes", NoOne)
    /\ retval' = NoValue
    /\ IF ledger = {}
       THEN /\ ret' = Nil
            /\ UNCHANGED <<pc, quota, election, seatsRemaining>>
       ELSE /\ election' = Stored
            /\ quota' = CCQuota(Stored.TotalVotes, Stored.Seats)
            /\ seatsRemaining' = Stored.Seats
            /\ pc' = AfterTest(Stored.Seats)
            /\ UNCHANGED ret
    /\ UNCHANGED <<program, ledger>>
    /\ UNCHANGED <<solVars, flatVars, tx>>

\* GetState, Unmarshal, quota and the loop initialisation.
CountVotesBegin ==
    /\ program = "chaincode" /\ pc = "idle"
    /\ call' = Call("CountVotes", NoOne)
    /\ retval' = NoValue
    /\ IF ledger = {}
       THEN /\ ret' = ErrNoElection
            /\ UNCHANGED <<pc, quota, election, seatsRemaining>>
       ELSE /\ election' = Stored
            /\ quota' = CCQuota(Stored.TotalVotes, Stored.Seats)
            /\ seatsRemaining' = Stored.Seats
            /\ pc' = AfterTest(Stored.Seats)
            /\ UNCHANGED ret
    /\ UNCHANGED <<program, ledger>>
    /\ UNCHANGED <<solVars, flatVars, tx>>

\* ballot.Preferences[0] and election.Candidates[firstPref] are in range.
FirstPrefInRange(prefs, n) == Len(prefs) > 0 /\ prefs[1] \in 0..(n - 1)

\* Number of ballots of bs whose first preference is candidate index c.
FirstPrefCount(bs, c) ==
    Cardinality({i \in 1..Len(bs) : Len(bs[i].Preferences) > 0 /\ bs[i].Preferences[1] = c})

\* The inner loop over election.Ballots: VoteCount++ of each first preference.
\* A ballot with no first preference, or one outside the roster, panics.
CountPass ==
    /\ program = "chaincode" /\ pc = "count"
    /\ LET bs == election.Ballots
           n  == Len(election.Candidates)
       IN  IF \A i \in 1..Len(bs) : FirstPrefInRange(bs[i].Preferences, n)
           THEN /\ election' = [election EXCEPT !.Candidates =
                       [i \in 1..n |-> [@[i] EXCEPT !.VoteCount = @ + FirstPrefCount(bs, i - 1)]]]
                /\ pc' = "elect"
                /\ UNCHANGED <<ret, quota, seatsRemaining>>
           ELSE /\ ret' = ErrPanic
                /\ pc' = "idle"
                /\ election' = NoLocal
                /\ quota' = 0
                /\ seatsRemaining' = 0
    /\ UNCHANGED <<program, call, retval, ledger>>
    /\ UNCHANGED <<solVars, flatVars, tx>>

\* Indices (1-based) of the candidates with VoteCount >= quota.
ReachedQuota(cs, q) == {i \in 1..Len(cs) : cs[i].VoteCount >= q}

\* The loop over election.Candidates: each candidate at or above the quota
\* takes a seat (seatsRemaining--) and has its VoteCount reset to 0.
ElectPass ==
    /\ program = "chaincode" /\ pc = "elect"
    /\ LET won == ReachedQuota(election.Candidates, quota)
           sr  == seatsRemaining - Cardinality(won)
       IN  /\ election' = [election EXCEPT !.Candidates =
                  [i \in 1..Len(@) |-> IF i \in won THEN [@[i] EXCEPT !.VoteCount = 0] ELSE @[i]]]
           /\ seatsRemaining' = sr
           /\ pc' = AfterTest(sr)
    /\ UNCHANGED <<program, call, retval, ret, quota, ledger>>
    /\ UNCHANGED <<solVars, flatVars, tx>>

\* Marshal and PutState("election", ...), return nil.
CountVotesPut ==
    /\ program = "chaincode" /\ pc = "put"
    /\ ledger' = {election}
    /\ ret' = Nil
    /\ pc' = "idle"
    /\ election' = NoLocal
    /\ quota' = 0
    /\ seatsRemaining' = 0
    /\ UNCHANGED <<program, call, retval>>
    /\ UNCHANGED <<solVars, flatVars, tx>>

\* GetElectionResults returning only the candidates with a non-zero count.
GetElectionResultsNonZero ==
    /\ program = "chaincode" /\ pc = "idle"
    /\ call' = Call("GetElectionResults", NoOne)
    /\ IF ledger = {}
       THEN /\ ret' = ErrNoElection
            /\ retval' = NoValue
       ELSE /\ ret' = Nil
            /\ LET NonZero(c) == c.VoteCount # 0
               IN  retval' = <<SelectSeq(Stored.Candidates, NonZero)>>
    /\ UNCHANGED <<program, pc, quota, ledger, election, seatsRemaining>>
    /\ UNCHANGED <<solVars, flatVars, tx>>

\* GetState, Unmarshal, return election.Candidates, nil. Nothing is written.
GetElectionResults ==
    /\ program = "chaincode" /\ pc = "idle"
    /\ call' = Call("GetElectionResults", NoOne)
    /\ IF ledger = {}
       THEN /\ ret' = ErrNoElection
            /\ retval' = NoValue
       ELSE /\ ret' = Nil
            /\ retval' = <<Stored.Candidates>>
    /\ UNCHANGED <<program, pc, quota, ledger, election, seatsRemaining>>
    /\ UNCHANGED <<solVars, flatVars, tx>>

\* ---- CastVote as a ledger transaction ------------------------------------
\* CastVote reads the record with GetState and later writes the whole record
\* with PutState; between the two, other transactions can read and write it.
Transactions == {"tx1", "tx2"}

\* A transaction that has not been submitted.
NoTx == [pc |-> "none", voter |-> NoOne, preferences |-> <<>>, read |-> {}, err |-> Nil]

\* A transaction that has returned err.
Returned(t, err) == [tx EXCEPT ![t].pc = "done", ![t].err = err]

\* Transaction t = CastVote(voter, preferences) up to its GetState and the
\* test `electionJSON == nil`.
CastVoteGetState(t, voter, preferences) ==
    /\ program = "chaincode" /\ tx[t].pc = "none"
    /\ tx' = [tx EXCEPT ![t] =
                 IF ledger = {}
                 THEN [NoTx EXCEPT !.pc = "done", !.voter = voter,
                                   !.preferences = preferences, !.err = ErrNoElection]
                 ELSE [NoTx EXCEPT !.pc = "read", !.voter = voter,
                                   !.preferences = preferences, !.read = ledger]]
    /\ UNCHANGED <<program, call, ret, retval, pc, quota, ledger, election, seatsRemaining>>
    /\ UNCHANGED <<solVars, flatVars>>

\* The rest of transaction t, on the record it read: the search for the
\* voter's ballot, the append, TotalVotes++ and PutState.
CastVotePutState(t) ==
    /\ program = "chaincode" /\ tx[t].pc = "read"
    /\ LET e == CHOOSE x \in tx[t].read : TRUE
       IN  IF HasVoted(e, tx[t].voter)
           THEN /\ tx' = Returned(t, ErrAlreadyVoted)
                /\ UNCHANGED ledger
           ELSE /\ ledger' = {[e EXCEPT
                                 !.Ballots = Append(@, [Voter |-> tx[t].voter,
                                                        Preferences |-> tx[t].preferences,
                                                        Voted |-> TRUE]),
                                 !.TotalVotes = @ + 1]}
                /\ tx' = Returned(t, Nil)
    /\ UNCHANGED <<program, call, ret, retval, pc, quota, election, seatsRemaining>>
    /\ UNCHANGED <<solVars, flatVars>>

\* ================================================================ STVVote
ErrSvAlreadyVoted == "Already voted."
ErrSvInvalidBallot == "Invalid ballot."
ErrSvNotAuthorized == "Not authorized."
PanicIndex == "Panic(0x32)"
PanicUnderflow == "Panic(0x11)"

Addresses == Voters \cup {AddressZero}

\* candidates.push(Candidate({name: candidateNames[i], voteCount: 0}))
SolCandidates(n) == [i \in 1..n |-> [name |-> CandidateNames[i], voteCount |-> 0]]

\* Default value of mapping(address => Ballot).
NoBallot == [voter |-> AddressZero, preferences |-> <<>>, voted |-> FALSE]

\* State of STVVote after constructor(candidateNames, _seats) sent by deployer.
SvConstructed(deployer, n, s) ==
    /\ owner = deployer
    /\ seats = s
    /\ candidates = SolCandidates(n)
    /\ ballots = [a \in Addresses |-> NoBallot]
    /\ totalVotes = 0
    /\ voters = <<>> /\ quorum = 0

SvIdle == UNCHANGED <<program, pc, quota, checkpoint>> /\ UNCHANGED <<ccVars, flatVars>>

\* vote() with `preferences.length <= candidates.length` as its second require.
SvVoteAtMost(sender, preferences) ==
    /\ program = "STVVote" /\ pc = "idle"
    /\ call' = Call("vote", sender)
    /\ retval' = NoValue
    /\ IF ballots[sender].voted
       THEN /\ ret' = ErrSvAlreadyVoted
            /\ UNCHANGED <<ballots, totalVotes>>
       ELSE IF Len(preferences) > Len(candidates)
       THEN /\ ret' = ErrSvInvalidBallot
            /\ UNCHANGED <<ballots, totalVotes>>
       ELSE /\ ballots' = [ballots EXCEPT ![sender] =
                              [voter |-> sender, preferences |-> preferences, voted |-> TRUE]]
            /\ totalVotes' = totalVotes + 1
            /\ ret' = Nil
    /\ UNCHANGED <<owner, candidates, seats, voters, quorum>>
    /\ SvIdle

\* function vote(uint[] memory preferences) public, sent by sender.
SvVote(sender, preferences) ==
    /\ program = "STVVote" /\ pc = "idle"
    /\ call' = Call("vote", sender)
    /\ retval' = NoValue
    /\ IF ballots[sender].voted
       THEN /\ ret' = ErrSvAlreadyVoted
            /\ UNCHANGED <<ballots, totalVotes>>
       ELSE IF Len(preferences) # Len(candidates)
       THEN /\ ret' = ErrSvInvalidBallot
            /\ UNCHANGED <<ballots, totalVotes>>
       ELSE /\ ballots' = [ballots EXCEPT ![sender] =
                              [voter |-> sender, preferences |-> preferences, voted |-> TRUE]]
            /\ totalVotes' = totalVotes + 1
            /\ ret' = Nil
    /\ UNCHANGED <<owner, candidates, seats, voters, quorum>>
    /\ SvIdle

\* Loop test of `while (seats > 0)`.
SvAfterTest(s) == IF s > 0 THEN "count" ELSE "return"

\* uint quota = totalVotes / (seats + 1) + 1;
SvQuota(totalValidVotes, s) == totalValidVotes \div (s + 1) + 1

\* countVotes() sent by sender: onlyOwner, quota, first loop test.
\* (The memory array remainingSeats is filled and never read.)
SvCountVotesBegin(sender) ==
    /\ program = "STVVote" /\ pc = "idle"
    /\ call' = Call("countVotes", sender)
    /\ retval' = NoValue
    /\ IF sender # owner
       THEN /\ ret' = ErrSvNotAuthorized
            /\ UNCHANGED <<pc, quota, checkpoint>>
       ELSE /\ quota' = SvQuota(totalVotes, seats)
            /\ checkpoint' = <<[candidates |-> candidates, seats |-> seats]>>
            /\ pc' = SvAfterTest(seats)
            /\ UNCHANGED ret
    /\ UNCHANGED <<program, owner, candidates, totalVotes, ballots, seats, voters, quorum>>
    /\ UNCHANGED <<ccVars, flatVars>>

\* A revert: storage goes back to its value at the start of the transaction.
SvRevert(err) ==
    /\ ret' = err
    /\ candidates' = checkpoint[1].candidates
    /\ seats' = checkpoint[1].seats
    /\ checkpoint' = <<>>
    /\ pc' = "idle"
    /\ quota' = 0

\* for (i < totalVotes) { voter = ballots[msg.sender].voter;
\*   firstPref = ballots[voter].preferences[0]; candidates[firstPref].voteCount++; }
\* msg.sender is the owner; every iteration reads the same ballot.
SvCountPass ==
    /\ program = "STVVote" /\ pc = "count"
    /\ LET voter == ballots[owner].voter
           prefs == ballots[voter].preferences
       IN  IF totalVotes = 0
           THEN /\ pc' = "elect"
                /\ UNCHANGED <<ret, quota, candidates, seats, checkpoint>>
           ELSE IF FirstPrefInRange(prefs, Len(candidates))
           THEN /\ candidates' = [candidates EXCEPT ![prefs[1] + 1].voteCount = @ + totalVotes]
                /\ pc' = "elect"
                /\ UNCHANGED <<ret, quota, seats, checkpoint>>
           ELSE SvRevert(PanicIndex)
    /\ UNCHANGED <<program, call, retval, owner, totalVotes, ballots, voters, quorum>>
    /\ UNCHANGED <<ccVars, flatVars>>

SvReachedQuota(cs, q) == {i \in 1..Len(cs) : cs[i].voteCount >= q}

\* for (i < candidates.length) if (voteCount >= quota) { seats--; voteCount = 0; }
\* `seats--` at seats = 0 is a checked-arithmetic panic.
SvElectPass ==
    /\ program = "STVVote" /\ pc = "elect"
    /\ LET won == SvReachedQuota(candidates, quota)
       IN  IF Cardinality(won) > seats
           THEN SvRevert(PanicUnderflow)
           ELSE /\ seats' = seats - Cardinality(won)
                /\ candidates' = [i \in 1..Len(candidates) |->
                       IF i \in won THEN [candidates[i] EXCEPT !.voteCount = 0]
                       ELSE candidates[i]]
                /\ pc' = SvAfterTest(seats - Cardinality(won))
                /\ UNCHANGED <<ret, quota, checkpoint>>
    /\ UNCHANGED <<program, call, retval, owner, totalVotes, ballots, voters, quorum>>
    /\ UNCHANGED <<ccVars, flatVars>>

\* countVotes returns: the transaction's storage writes stand.
SvCountVotesReturn ==
    /\ program = "STVVote" /\ pc = "return"
    /\ ret' = Nil
    /\ pc' = "idle"
    /\ quota' = 0
    /\ checkpoint' = <<>>
    /\ UNCHANGED <<program, call, retval, owner, candidates, totalVotes, ballots, seats, voters, quorum>>
    /\ UNCHANGED <<ccVars, flatVars>>

\* ============================================================ STVContract
ErrScAlreadyVoted == "You have already voted"
ErrScInvalidFormat == "Invalid vote format"

\* Default value of mapping(address => Voter).
NoVoter == [voted |-> FALSE, preferences |-> <<>>]

\* State of STVContract after constructor(candidateNames, _quorum).
ScConstructed(deployer, n, q) ==
    /\ owner = deployer
    /\ quorum = q
    /\ candidates = SolCandidates(n)
    /\ voters = [a \in Addresses |-> NoVoter]
    /\ totalVotes = 0
    /\ ballots = <<>> /\ seats = 0

\* function vote(uint[] memory preferences) public hasNotVoted, sent by sender.
ScVote(sender, preferences) ==
    /\ program = "STVContract" /\ pc = "idle"
    /\ call' = Call("vote", sender)
    /\ retval' = NoValue
    /\ IF voters[sender].voted
       THEN /\ ret' = ErrScAlreadyVoted
            /\ UNCHANGED <<voters, totalVotes>>
       ELSE IF Len(preferences) # Len(candidates)
       THEN /\ ret' = ErrScInvalidFormat
            /\ UNCHANGED <<voters, totalVotes>>
       ELSE /\ voters' = [voters EXCEPT ![sender] =
                             [voted |-> TRUE, preferences |-> preferences]]
            /\ totalVotes' = totalVotes + 1
            /\ ret' = Nil
    /\ UNCHANGED <<owner, candidates, ballots, seats, quorum>>
    /\ SvIdle

ErrScOnlyOwner == "Only owner can call this function"
ErrScQuorum == "Quorum não atingido"

\* tally[c] counting an address for every rank at which it lists c.
ScTallyAnyRank(c) ==
    Cardinality({a \in Addresses : /\ voters[a].voted
                                   /\ \E k \in 1..Len(voters[a].preferences) :
                                         voters[a].preferences[k] = c})

\* tally[c] after the loop over voterAddresses: the addresses that voted and
\* whose first preference is c. (A mapping has no length: the loop that fills
\* voterAddresses is read as its comment and the contract's documentation
\* state it, as visiting every address that voted.)
ScTally(c) ==
    Cardinality({a \in Addresses : /\ voters[a].voted
                                   /\ Len(voters[a].preferences) > 0
                                   /\ voters[a].preferences[1] = c})

\* for (i < tally.length) if (tally[i] > tally[winnerIndex]) winnerIndex = i;
RECURSIVE ScWinnerIndex(_, _)
ScWinnerIndex(i, winnerIndex) ==
    IF i >= Len(candidates) THEN winnerIndex
    ELSE ScWinnerIndex(i + 1, IF ScTally(i) > ScTally(winnerIndex) THEN i ELSE winnerIndex)

\* voter.preferences[0], tally[firstPreference] and candidates[winnerIndex]
\* are all in range.
ScTallyInRange ==
    /\ Len(candidates) > 0
    /\ \A a \in Addresses :
          voters[a].voted => FirstPrefInRange(voters[a].preferences, Len(candidates))

\* calculateSTVTally() with no onlyOwner modifier.
ScCalculateSTVTallyAnyone(sender) ==
    /\ program = "STVContract" /\ pc = "idle"
    /\ call' = Call("calculateSTVTally", sender)
    /\ IF totalVotes < quorum
       THEN ret' = ErrScQuorum /\ retval' = NoValue
       ELSE IF ~ScTallyInRange
       THEN ret' = PanicIndex /\ retval' = NoValue
       ELSE ret' = Nil /\ retval' = <<candidates[ScWinnerIndex(0, 0) + 1].name>>
    /\ UNCHANGED <<owner, candidates, totalVotes, ballots, seats, voters, quorum>>
    /\ SvIdle

\* function calculateSTVTally() public view onlyOwner returns (string memory),
\* sent by sender.
ScCalculateSTVTally(sender) ==
    /\ program = "STVContract" /\ pc = "idle"
    /\ call' = Call("calculateSTVTally", sender)
    /\ IF sender # owner
       THEN ret' = ErrScOnlyOwner /\ retval' = NoValue
       ELSE IF totalVotes < quorum
       THEN ret' = ErrScQuorum /\ retval' = NoValue
       ELSE IF ~ScTallyInRange
       THEN ret' = PanicIndex /\ retval' = NoValue
       ELSE ret' = Nil /\ retval' = <<candidates[ScWinnerIndex(0, 0) + 1].name>>
    /\ UNCHANGED <<owner, candidates, totalVotes, ballots, seats, voters, quorum>>
    /\ SvIdle

\* ================================================================== system
\* The chaincode starts with no "election" key on the ledger.
CcConstructed ==
    /\ ledger = {}
    /\ owner = AddressZero /\ candidates = <<>> /\ totalVotes = 0
    /\ ballots = <<>> /\ seats = 0 /\ voters = <<>> /\ quorum = 0

\* Locals of a count, and the return value, before any call.
NoCall ==
    /\ call = Call("", NoOne)
    /\ ret = Nil
    /\ retval = NoValue
    /\ pc = "idle"
    /\ quota = 0
    /\ election = NoLocal
    /\ seatsRemaining = 0
    /\ tx = [t \in Transactions |-> NoTx]
    /\ checkpoint = <<>>
    /\ votos = <<>> /\ candidatasValidas = <<>> /\ pesos = <<>> /\ resultados = <<>>

InitChaincode ==
    /\ program = "chaincode"
    /\ NoCall
    /\ CcConstructed

InitSTVVote ==
    /\ program = "STVVote"
    /\ NoCall
    /\ ledger = {}
    /\ \E d \in Voters, n \in RosterSizes, s \in SeatChoices : SvConstructed(d, n, s)

InitSTVContract ==
    /\ program = "STVContract"
    /\ NoCall
    /\ ledger = {}
    /\ \E d \in Voters, n \in RosterSizes, q \in QuorumChoices : ScConstructed(d, n, q)

Init == InitChaincode \/ InitSTVVote \/ InitSTVContract

\* A step of a CountVotes that has started.
CountVotesStep == CountPass \/ ElectPass \/ CountVotesPut

NextChaincode ==
    \/ \E n \in RosterSizes, s \in SeatChoices : InitElection(n, s)
    \/ \E v \in Voters, p \in PrefChoices : CastVote(v, p)
    \/ CountVotesBegin
    \/ CountPass
    \/ ElectPass
    \/ CountVotesPut
    \/ GetElectionResults

\* A step of a countVotes() that has started.
SvCountVotesStep == SvCountPass \/ SvElectPass \/ SvCountVotesReturn

NextSTVVote ==
    \/ \E a \in Voters, p \in PrefChoices : SvVote(a, p)
    \/ \E a \in Voters : SvCountVotesBegin(a)
    \/ SvCountPass
    \/ SvElectPass
    \/ SvCountVotesReturn

NextSTVContract ==
    \/ \E a \in Voters, p \in PrefChoices : ScVote(a, p)
    \/ \E a \in Voters : ScCalculateSTVTally(a)

Next == NextChaincode \/ NextSTVVote \/ NextSTVContract

\* Any of the three programs.
Spec == Init /\ [][Next]_vars
\* The two Solidity contracts.
SpecSolidity ==
    (InitSTVVote \/ InitSTVContract) /\ [][NextSTVVote \/ NextSTVContract]_vars
\* One program at a time.
SpecChaincode == InitChaincode /\ [][NextChaincode]_vars
SpecSTVVote == InitSTVVote /\ [][NextSTVVote]_vars
SpecSTVContract == InitSTVContract /\ [][NextSTVContract]_vars
\* A handler that has started keeps executing until it returns or fails.
FairSpecChaincode == SpecChaincode /\ WF_vars(CountVotesStep)
FairSpecSTVVote == SpecSTVVote /\ WF_vars(SvCountVotesStep)
\* ================================================ concurrent transactions
\* An election of one or two candidates is stored; CastVote transactions and
\* a CountVotes run with their reads and writes of the record interleaved.
InitConcurrent ==
    /\ program = "chaincode"
    /\ NoCall
    /\ owner = AddressZero /\ candidates = <<>> /\ totalVotes = 0
    /\ ballots = <<>> /\ seats = 0 /\ voters = <<>> /\ quorum = 0
    /\ \E n \in RosterSizes \ {0}, s \in SeatChoices : ledger = {NewElection(n, s)}

NextConcurrent ==
    \/ \E t \in Transactions, v \in Voters, p \in PrefChoices : CastVoteGetState(t, v, p)
    \/ \E t \in Transactions : CastVotePutState(t)
    \/ CountVotesBegin
    \/ CountPass
    \/ ElectPass
    \/ CountVotesPut

SpecConcurrent == InitConcurrent /\ [][NextConcurrent]_vars

\* ======================================================= tally elections
\* Elections as InitElection followed by one CastVote per voter leaves them:
\* a roster of three or four candidates, every voter's ballot a full ranking.
TallyNames == <<"A", "B", "C", "D">>
TallyVoters == <<"voter1", "voter2", "voter3", "voter4">>
TallySizes == {Len(TallyNames) - 1, Len(TallyNames)}
TallySeats == 1..MaxSeats

\* The ranking k+0, k+1, ... of n candidates (indices 0..n-1, cyclically).
Rotation(n, k) == [i \in 1..n |-> (i - 1 + k) % n]
Reversed(p) == [i \in 1..Len(p) |-> p[Len(p) + 1 - i]]
\* Rankings submitted: the rotations of 0..n-1 and of n-1..0 (for three
\* candidates these are all six rankings).
TallyRankings(n) ==
    {Rotation(n, k) : k \in 0..(n - 1)} \cup {Reversed(Rotation(n, k)) : k \in 0..(n - 1)}

\* Election{Candidates, Seats, TotalVotes, Ballots} after InitElection(the
\* first n names, s) and CastVote(TallyVoters[i], prefs[i]) for every i.
TallyElection(n, s, prefs) ==
    [Candidates |-> [i \in 1..n |-> [Name |-> TallyNames[i], VoteCount |-> 0]],
     Seats      |-> s,
     TotalVotes |-> Len(prefs),
     Ballots    |-> [i \in 1..Len(prefs) |->
                       [Voter |-> TallyVoters[i], Preferences |-> prefs[i], Voted |-> TRUE]]]

InitTally ==
    /\ program = "chaincode"
    /\ NoCall
    /\ owner = AddressZero /\ candidates = <<>> /\ totalVotes = 0
    /\ ballots = <<>> /\ seats = 0 /\ voters = <<>> /\ quorum = 0
    /\ \E n \in TallySizes, s \in TallySeats :
          \E prefs \in [1..Len(TallyVoters) -> TallyRankings(n)] :
              ledger = {TallyElection(n, s, prefs)}

\* Counts of such an election (one after another) and reads of its results.
NextTally ==
    \/ CountVotesBegin
    \/ CountPass
    \/ ElectPass
    \/ CountVotesPut
    \/ GetElectionResults

SpecTally == InitTally /\ [][NextTally]_vars

\* ====================================================== flat-weighted tally
\* candidatasValidas (the first names of main's list) and a name not in it.
FlatRoster == <<"Rosa Fernandes (PSD)", "Joyce Trindade (PSD)">>
FlatUnlisted == "Unlisted"
FlatNames == {FlatRoster[i] : i \in 1..Len(FlatRoster)} \cup {FlatUnlisted}
\* pesos := []int{3, 2, 1}, and a weight list shorter than a ballot.
Pesos == <<3, 2, 1>>
PesosChoices == {Pesos, SubSeq(Pesos, 1, 1)}
\* One voto (a list of names) and a table of votos.
VotoChoices == SeqsUpTo(FlatNames, Len(FlatRoster))
VotosChoices == SeqsUpTo(VotoChoices, Cardinality(Voters))

contains(cv, candidata) == \E i \in 1..Len(cv) : cv[i] = candidata

\* f[1] + ... + f[n]
RECURSIVE SumTo(_, _)
SumTo(f, n) == IF n = 0 THEN 0 ELSE f[n] + SumTo(f, n - 1)

\* The loop over votos taking the weights from the end of pesos: the last
\* weight for the first position, and so on.
TotaisInvertido(vs, cv, w, candidata) ==
    SumTo([k \in 1..Len(vs) |->
              SumTo([i \in 1..Len(vs[k]) |->
                        IF i <= Len(w) /\ contains(cv, vs[k][i]) /\ vs[k][i] = candidata
                        THEN w[Len(w) + 1 - i] ELSE 0],
                    Len(vs[k]))],
          Len(vs))

\* resultados[candidata] after the loop over votos: pesos[i] for every
\* position i < len(pesos) of every voto that holds the (valid) candidata.
Totais(vs, cv, w, candidata) ==
    SumTo([k \in 1..Len(vs) |->
              SumTo([i \in 1..Len(vs[k]) |->
                        IF i <= Len(w) /\ contains(cv, vs[k][i]) /\ vs[k][i] = candidata
                        THEN w[i] ELSE 0],
                    Len(vs[k]))],
          Len(vs))

\* The keys of the map resultados.
Chaves(cv) == {cv[i] : i \in 1..Len(cv)}

\* The lists calcularTotais can return: the map's entries in some iteration
\* order (Go does not fix it), then sort.Slice by Votos descending, which
\* leaves entries with equal Votos in any order. total[nome] is the map.
RECURSIVE OrdenacoesDe(_, _)
OrdenacoesDe(nomes, total) ==
    IF nomes = {} THEN {<<>>}
    ELSE LET maior == CHOOSE v \in {total[n] : n \in nomes} :
                         \A n \in nomes : total[n] <= v
         IN  UNION {{<<[Nome |-> n, Votos |-> total[n]]>> \o resto :
                        resto \in OrdenacoesDe(nomes \ {n}, total)} :
                    n \in {m \in nomes : total[m] = maior}}

Ordenacoes(vs, cv, w) ==
    OrdenacoesDe(Chaves(cv), [nome \in Chaves(cv) |-> Totais(vs, cv, w, nome)])

calcularTotais(vs, cv, w) ==
    /\ program = "tallying"
    /\ call' = Call("calcularTotais", NoOne)
    /\ retval' = NoValue
    /\ votos' = vs /\ candidatasValidas' = cv /\ pesos' = w
    /\ resultados' \in Ordenacoes(vs, cv, w)
    /\ ret' = Nil
    /\ UNCHANGED <<program, pc, quota>>
    /\ UNCHANGED <<ccVars, solVars>>

\* main's candidatasValidas and votos.
MainCandidatas ==
    <<"Tainá de Paula (PT)", "Rosa Fernandes (PSD)", "Joyce Trindade (PSD)",
      "Helena Vieira (PSD)", "Vera Lins (PP)", "Monica Benicio (PSOL)",
      "Tânia Bastos (REPUBLICANOS)", "Talita Galhardo (PSDB)", "Thais Ferreira (PSOL)",
      "Tatiana Roque (PSB)", "Maíra do MST (PT)", "Gigi Castilho (REPUBLICANOS)">>
MainVotos ==
    << <<"Tainá de Paula (PT)", "Monica Benicio (PSOL)", "Thais Ferreira (PSOL)">>,
       <<"Tatiana Roque (PSB)", "Joyce Trindade (PSD)", "Maíra do MST (PT)">>,
       <<"Rosa Fernandes (PSD)", "Vera Lins (PP)", "Tânia Bastos (REPUBLICANOS)">>,
       <<"Monica Benicio (PSOL)", "Thais Ferreira (PSOL)", "Tainá de Paula (PT)">> >>

\* func main(): the program's entry, before any other call; it calls
\* calcularTotais(votos, candidatasValidas, pesos) and prints the result.
main ==
    /\ call.op = ""
    /\ calcularTotais(MainVotos, MainCandidatas, Pesos)

InitTallying ==
    /\ program = "tallying"
    /\ NoCall
    /\ CcConstructed

NextTallying ==
    \/ main
    \/ \E vs \in VotosChoices, w \in PesosChoices : calcularTotais(vs, FlatRoster, w)

SpecTallying == InitTallying /\ [][NextTallying]_vars

\* ================================================================= claims
\* A count has started and has not returned.
Counting == pc # "idle"

\* Sum of the weights of the accepted ballots: each stored ballot weighs 1.
AcceptedVotes ==
    IF program = "chaincode" THEN Len(election.Ballots)
    ELSE Cardinality({a \in Voters : ballots[a].voted})

\* The seat count the running count was configured with.
ConfiguredSeats ==
    IF program = "chaincode" THEN election.Seats ELSE checkpoint[1].seats

DroopQuota(v, s) == (v \div (s + 1)) + 1

\* C1: whenever a count runs on an election with at least one seat, the quota
\* it uses is floor(V / (seats + 1)) + 1, V being the number (total weight)
\* of the accepted ballots.
C1_QuotaIsDroop ==
    (Counting /\ ConfiguredSeats >= 1) => quota = DroopQuota(AcceptedVotes, ConfiguredSeats)

\* Size of the roster the running count works on.
RosterSize ==
    IF program = "chaincode" THEN Len(election.Candidates) ELSE Len(candidates)

\* C2: every count that has started on an election with 1 <= seats <= number
\* of candidates eventually returns; it does not stay in its loop forever
\* when no candidate's total reaches the quota.
C2_TallyTerminates ==
    (Counting /\ ConfiguredSeats >= 1 /\ ConfiguredSeats <= RosterSize) ~> (pc = "idle")

\* Seats awarded so far by the running count.
SeatsAwarded ==
    IF program = "chaincode" THEN election.Seats - seatsRemaining
    ELSE checkpoint[1].seats - seats

SeatsLeft == IF program = "chaincode" THEN seatsRemaining ELSE seats

\* C3: during a count the number of seats awarded never exceeds the seat
\* count, i.e. the remaining-seat counter never goes below zero.
C3_SeatsWithinSeatCount ==
    Counting => (SeatsAwarded <= ConfiguredSeats /\ SeatsLeft >= 0)

RECURSIVE SumVoteCount(_)
SumVoteCount(cs) ==
    IF cs = <<>> THEN 0 ELSE Head(cs).VoteCount + SumVoteCount(Tail(cs))

\* C4: at the end of every round (the pass over the candidates) the candidate
\* totals plus the residual weight of the exhausted ballots equal the weight
\* of the ballots. The code keeps no exhausted ballots (every stored ballot is
\* counted in every pass), so the residual is 0 and each ballot weighs 1.
C4_Conservation ==
    [][ElectPass =>
         SumVoteCount(election'.Candidates) + 0 = Len(election'.Ballots)]_vars

\* ---- ballot submission ---------------------------------------------------
\* A vote submission by v with preference list p, to whichever program runs.
VoteCall(v, p) == CastVote(v, p) \/ SvVote(v, p) \/ ScVote(v, p)

\* Number of ballots the program holds for voter w.
NumBallots(w) ==
    IF program = "chaincode"
    THEN IF ledger = {} THEN 0
         ELSE Cardinality({i \in 1..Len(Stored.Ballots) : Stored.Ballots[i].Voter = w})
    ELSE IF program = "STVVote" THEN (IF ballots[w].voted THEN 1 ELSE 0)
    ELSE (IF voters[w].voted THEN 1 ELSE 0)

\* The preference lists the program holds for voter w.
RecordedPrefs(w) ==
    IF program = "chaincode"
    THEN IF ledger = {} THEN {}
         ELSE {Stored.Ballots[i].Preferences :
                  i \in {j \in 1..Len(Stored.Ballots) : Stored.Ballots[j].Voter = w}}
    ELSE IF program = "STVVote"
    THEN (IF ballots[w].voted THEN {ballots[w].preferences} ELSE {})
    ELSE (IF voters[w].voted THEN {voters[w].preferences} ELSE {})

\* The program's vote total.
TotalRecorded ==
    IF program = "chaincode" THEN (IF ledger = {} THEN 0 ELSE Stored.TotalVotes)
    ELSE totalVotes

\* Size of the roster ballots are submitted against (0 when there is none).
SubmitRoster ==
    IF program = "chaincode" THEN (IF ledger = {} THEN 0 ELSE Len(Stored.Candidates))
    ELSE Len(candidates)

AlreadyVotedError ==
    IF program = "chaincode" THEN ErrAlreadyVoted
    ELSE IF program = "STVVote" THEN ErrSvAlreadyVoted
    ELSE ErrScAlreadyVoted

\* The submission left every voter's ballots and the vote total as they were.
NothingRecorded ==
    /\ TotalRecorded' = TotalRecorded
    /\ \A w \in Voters : NumBallots(w)' = NumBallots(w) /\ RecordedPrefs(w)' = RecordedPrefs(w)

\* A step that is a whole vote submission (CastVote or vote()).
VoteStep == pc = "idle" /\ pc' = "idle" /\ call'.op \in {"CastVote", "vote"}

C5_Step ==
    VoteStep =>
        /\ NumBallots(call'.who) > 0 => (ret' = AlreadyVotedError /\ NothingRecorded)
        /\ \A w \in Voters :
              NumBallots(w) > 0 =>
                  (NumBallots(w)' = NumBallots(w) /\ RecordedPrefs(w)' = RecordedPrefs(w))

\* C5: a submission by a voter who already has a recorded ballot is rejected
\* with the already-voted error and records nothing; no submission changes a
\* ballot already recorded, and no voter ever has more than one ballot.
C5_DuplicateVoteRejected ==
    /\ [](\A w \in Voters : NumBallots(w) <= 1)
    /\ [][C5_Step]_vars

\* A duplicate submission has just been rejected by the chaincode, leaving
\* the voter's one ballot in place.
C5_Witness ==
    /\ program = "chaincode" /\ pc = "idle" /\ ret = ErrAlreadyVoted
    /\ call.op = "CastVote" /\ NumBallots(call.who) = 1

\* p names a candidate outside a roster of n candidates.
NamesUnknown(p, n) == \E k \in 1..Len(p) : p[k] \notin 0..(n - 1)

\* p names some candidate more than once.
HasRepeat(p) == \E j, k \in 1..Len(p) : j # k /\ p[j] = p[k]

\* An election with at least one candidate exists to vote in.
ElectionOpen == (program = "chaincode" => ledger # {}) /\ SubmitRoster >= 1

\* C6: a ballot that names a candidate outside the roster, submitted to an
\* open election by a voter with no recorded ballot, is rejected: it is not
\* stored, the voter is not marked as having voted and the vote total is
\* unchanged.
C6_UnknownCandidateRejected ==
    [][\A v \in Voters, p \in PrefChoices :
          (/\ NamesUnknown(p, SubmitRoster) /\ ElectionOpen /\ NumBallots(v) = 0
           /\ VoteCall(v, p)) =>
              (ret' # Nil /\ NothingRecorded)]_vars

\* C7: a ballot that repeats a candidate, submitted to an open election by a
\* voter with no recorded ballot, is rejected with DuplicateCandidateInBallot
\* and is not stored.
C7_RepeatedCandidateRejected ==
    [][\A v \in Voters, p \in PrefChoices :
          (/\ HasRepeat(p) /\ ElectionOpen /\ NumBallots(v) = 0
           /\ VoteCall(v, p)) =>
              (ret' = "DuplicateCandidateInBallot" /\ NothingRecorded)]_vars

\* C8: a list of distinct known candidates, submitted to an open election by
\* a voter with no recorded ballot, is rejected exactly when it is empty or
\* longer than the roster.
C8_LengthValidation ==
    [][\A v \in Voters, p \in PrefChoices :
          (/\ ~HasRepeat(p) /\ ~NamesUnknown(p, SubmitRoster)
           /\ ElectionOpen /\ NumBallots(v) = 0
           /\ VoteCall(v, p)) =>
              ((ret' # Nil) <=> (p = <<>> \/ Len(p) > SubmitRoster))]_vars

\* The voter's voted flag in the Solidity contracts.
SolVoted(a) == IF program = "STVVote" THEN ballots[a].voted ELSE voters[a].voted

InvalidLengthError ==
    IF program = "STVVote" THEN ErrSvInvalidBallot ELSE ErrScInvalidFormat

\* C9: the contracts' vote() rejects every ballot whose number of preferences
\* differs from the number of candidates: the call fails (with the invalid
\* length error when the sender has not voted), and the voted flags, the
\* stored preferences and totalVotes are unchanged, so the sender can still
\* vote; a ballot is accepted only with exactly one preference per candidate.
C9_ExactLengthOnly ==
    [][\A a \in Voters, p \in PrefChoices :
          (SvVote(a, p) \/ ScVote(a, p)) =>
              /\ Len(p) # Len(candidates) =>
                    /\ ret' # Nil
                    /\ ~SolVoted(a) => ret' = InvalidLengthError
                    /\ UNCHANGED <<ballots, voters, totalVotes>>
              /\ (ret' = Nil /\ ~SolVoted(a)) => Len(p) = Len(candidates)]_vars

\* A ballot of the wrong length has just been rejected and the contract holds
\* no ballot: every sender can still vote.
C9_Witness ==
    /\ program = "STVVote" /\ ret = ErrSvInvalidBallot
    /\ Len(candidates) = 2
    /\ \A a \in Voters : ~ballots[a].voted
    /\ totalVotes = 0

\* C10: the count of an election with at least one candidate never fails on
\* a stored ballot: reading a ballot's first preference and indexing the
\* candidate array with it never panics.
C10_CountNeverPanics ==
    (call.op \in {"CountVotes", "countVotes"} /\ pc = "idle" /\ SubmitRoster >= 1) =>
        (ret # ErrPanic /\ ret # PanicIndex)

\* ---- tally rounds --------------------------------------------------------
\* A step that starts a count.
CountBegins == CountVotesBegin \/ \E a \in Voters : SvCountVotesBegin(a)

\* The seat count a count would start from.
StoredSeats ==
    IF program = "chaincode" THEN (IF ledger = {} THEN 0 ELSE Stored.Seats) ELSE seats

\* C11: a count started on an open election with at least one seat and no
\* accepted vote returns at once with QuotaUnreachable: it does not go into
\* the counting loop and awards no seat.
C11_ZeroVotesHalts ==
    [][(/\ CountBegins /\ ElectionOpen /\ StoredSeats >= 1 /\ TotalRecorded = 0
        /\ (program = "STVVote" => call'.who = owner)) =>
           (pc' = "idle" /\ ret' = "QuotaUnreachable")]_vars

\* Total of candidate c (1-based position in the roster) in the running count.
Total(c) ==
    IF program = "chaincode" THEN election.Candidates[c].VoteCount
    ELSE candidates[c].voteCount

\* Number of recorded ballots that rank candidate c first.
FirstChoices(c) ==
    IF program = "chaincode" THEN FirstPrefCount(election.Ballots, c - 1)
    ELSE Cardinality({a \in Voters : /\ ballots[a].voted
                                     /\ Len(ballots[a].preferences) > 0
                                     /\ ballots[a].preferences[1] = c - 1})

\* A counting pass that ran to its end.
CountingDone == pc = "count" /\ pc' = "elect"

\* Every recorded ballot ranks a candidate of the roster first.
FirstChoicesKnown ==
    IF program = "chaincode"
    THEN \A i \in 1..Len(election.Ballots) :
            FirstPrefInRange(election.Ballots[i].Preferences, RosterSize)
    ELSE \A a \in Voters :
            ballots[a].voted => FirstPrefInRange(ballots[a].preferences, RosterSize)

\* C12: a counting pass adds to each candidate's total one vote for each
\* recorded ballot that ranks the candidate first (every recorded ballot
\* weighs 1 and points at its first preference), so after the first pass of
\* a count that started from zero totals each total is the number of
\* recorded ballots ranking that candidate first.
C12_CountingPass ==
    [][(CountingDone /\ FirstChoicesKnown) =>
          \A c \in 1..RosterSize : Total(c)' = Total(c) + FirstChoices(c)]_vars

\* The candidates at or above the quota in the election check.
Won ==
    IF program = "chaincode" THEN ReachedQuota(election.Candidates, quota)
    ELSE SvReachedQuota(candidates, quota)

\* a comes before b: larger total first, ties by lowest identifier.
Before(a, b) == Total(a) > Total(b) \/ (Total(a) = Total(b) /\ a < b)

\* Whom the election check must elect: the candidates at or above the quota,
\* taken in that order until no seat is left.
MustElect == {c \in Won : Cardinality({d \in Won : Before(d, c)}) < SeatsLeft}

\* An election-check pass.
ElectionCheck == pc = "elect" /\ pc' # "elect"

\* The candidates the pass gave a seat to (their totals are reset to 0).
ElectedInPass == {c \in 1..RosterSize : Total(c) >= quota /\ Total(c)' = 0}

\* C13: the election check (with a quota of at least 1) elects the candidates
\* at or above the quota in descending order of total (ties: lowest
\* identifier) and only while seats are left; each takes one seat, and the
\* count leaves its loop as soon as no seat is left.
C13_ElectionCheck ==
    [][(ElectionCheck /\ quota >= 1) =>
          /\ ElectedInPass = MustElect
          /\ SeatsLeft' = SeatsLeft - Cardinality(MustElect)
          /\ SeatsLeft' = 0 => pc' \in {"put", "return"}]_vars

\* ---- what happens between two counting passes ----------------------------
\* The running chaincode count has made exactly one counting pass and one
\* election check, in which no candidate reached the quota: seats remain.
OneRoundNoWinner ==
    /\ program = "chaincode" /\ pc = "count"
    /\ seatsRemaining = election.Seats
    /\ \E c \in 1..RosterSize : FirstChoices(c) > 0
    /\ \A c \in 1..RosterSize :
          Total(c) = Stored.Candidates[c].VoteCount + FirstChoices(c)

\* The candidate to eliminate: lowest total, ties by lowest identifier.
Lowest ==
    CHOOSE e \in 1..RosterSize :
        \A c \in 1..RosterSize :
            Total(e) < Total(c) \/ (Total(e) = Total(c) /\ e <= c)

\* Ballots assigned to candidate e whose next preference is candidate c.
MovedFrom(e, c) ==
    Cardinality({i \in 1..Len(election.Ballots) :
                    LET prefs == election.Ballots[i].Preferences
                    IN  Len(prefs) > 1 /\ prefs[1] = e - 1 /\ prefs[2] = c - 1})

\* C14: after a round in which no candidate reached the quota and seats
\* remain, the candidate with the lowest total (ties: lowest identifier) is
\* eliminated and each of its ballots moves, at full weight, to its next
\* preference: in the next counting pass the eliminated candidate receives
\* nothing and every other candidate receives exactly the moved ballots that
\* rank it next.
C14_Elimination ==
    [][(OneRoundNoWinner /\ CountingDone) =>
          /\ Total(Lowest)' = Total(Lowest)
          /\ \A c \in 1..RosterSize \ {Lowest} :
                Total(c)' = Total(c) + MovedFrom(Lowest, c)]_vars

RECURSIVE SumTotals(_)
SumTotals(n) == IF n = 0 THEN 0 ELSE Total(n) + SumTotals(n - 1)

\* C15: an elected candidate keeps a quota of votes and passes on only its
\* surplus T - quota, spread over its ballots (each weight multiplied by
\* (T - quota) / T < 1); so a counting pass that follows the election of k
\* candidates counts at most V - k * quota votes, V being the number of
\* ballots.
C15_SurplusTransfer ==
    [][(CountingDone /\ SeatsAwarded >= 1 /\ quota >= 1) =>
          SumTotals(RosterSize)' - SumTotals(RosterSize)
              <= AcceptedVotes - SeatsAwarded * quota]_vars

\* A step of a running count that did not fail.
TallyStep == Counting /\ pc' # pc /\ ret' \notin {ErrPanic, PanicIndex, PanicUnderflow}

\* C16: a counting pass is followed by the election check; the election check
\* is followed by a transfer step when it elected someone and seats remain,
\* by an elimination step when it elected no one and seats remain, and by the
\* end of the count otherwise; it is never followed directly by the next
\* counting pass.
C16_StepOrder ==
    [][TallyStep =>
          /\ pc = "count" => pc' = "elect"
          /\ pc = "elect" =>
                IF SeatsLeft' > 0
                THEN pc' = (IF SeatsLeft' < SeatsLeft THEN "transfer" ELSE "eliminate")
                ELSE pc' \in {"put", "return"}]_vars

\* ---- scenarios -----------------------------------------------------------
\* The preference lists of the ballots of the running chaincode count.
BallotPrefs == [i \in 1..Len(election.Ballots) |-> election.Ballots[i].Preferences]

\* The running chaincode count started from zero totals (a first count).
FreshCount ==
    /\ program = "chaincode" /\ Counting
    /\ \A c \in 1..Len(Stored.Candidates) : Stored.Candidates[c].VoteCount = 0

\* Candidates {A,B,C}, 1 seat, ballots [A,B,C], [A,C,B], [B,A,C], [C,B,A].
Scenario17 ==
    /\ FreshCount
    /\ RosterSize = Len(TallyNames) - 1
    /\ election.Seats = 1
    /\ BallotPrefs = << <<0, 1, 2>>, <<0, 2, 1>>, <<1, 0, 2>>, <<2, 1, 0>> >>

\* C17: in that election the quota is 3; the first election check sees A=2,
\* B=1, C=1 and elects no one (B is then eliminated, its ballot going to A);
\* the second sees A=3, C=1, elects A alone and ends the count with the seat
\* filled.
C17_ScenarioSTV ==
    /\ [](Scenario17 => quota = 3)
    /\ [][(Scenario17 /\ ElectionCheck) =>
             \/ /\ Total(1) = 2 /\ Total(2) = 1 /\ Total(3) = 1
                /\ ElectedInPass = {}
                /\ pc' # "put"
             \/ /\ Total(1) = 3 /\ Total(3) = 1
                /\ ElectedInPass = {1}
                /\ pc' = "put" /\ seatsRemaining' = 0]_vars

\* Candidates {A,B}, 2 seats, the single ballot [A].
Scenario18 ==
    /\ FreshCount
    /\ RosterSize = 2 /\ election.Seats = 2
    /\ BallotPrefs = << <<0>> >>

\* C18: in that election the quota is 1, the election check elects A and
\* never B, and the count ends with one seat left vacant.
C18_ScenarioVacantSeat ==
    /\ [](Scenario18 => quota = 1)
    /\ [][(Scenario18 /\ ElectionCheck) => ElectedInPass \subseteq {1}]_vars
    /\ []((Scenario18 /\ pc = "put") => seatsRemaining = 1)

\* A count is started right after a count that returned successfully.
SecondCount ==
    /\ pc = "idle" /\ call.op = "CountVotes" /\ ret = Nil
    /\ CountVotesBegin /\ ledger # {}

\* C19: a count run right after a completed count of the same election
\* starts from the candidate totals the first count started from (all zero,
\* as InitElection leaves them), so that it goes through the same rounds.
C19_Idempotent ==
    [][SecondCount =>
          \A c \in 1..Len(Stored.Candidates) : Stored.Candidates[c].VoteCount = 0]_vars

\* ---- ballot order --------------------------------------------------------
\* How many times ballot b occurs in the table vs.
Occurrences(vs, b) == Cardinality({k \in 1..Len(vs) : vs[k] = b})

\* Two tables hold the same ballots, possibly in a different order.
SameBallots(vs, ws) ==
    /\ Len(vs) = Len(ws)
    /\ \A k \in 1..Len(vs) : Occurrences(vs, vs[k]) = Occurrences(ws, vs[k])

\* calcularTotais is run again, for the same candidates and weights, on a
\* table holding the ballots of the run before in another order.
SameBallotsAgain ==
    /\ program = "tallying" /\ call.op = "calcularTotais"
    /\ call'.op = "calcularTotais"
    /\ candidatasValidas' = candidatasValidas /\ pesos' = pesos
    /\ votos' # votos /\ SameBallots(votos, votos')

\* C20: the order in which the ballots were submitted does not change the
\* result: the flat-weighted tally of the same ballots in another order is
\* the same list, with the same totals in the same order.
C20_BallotOrderIrrelevant ==
    [][SameBallotsAgain => resultados' = resultados]_vars

\* ---- flat-weighted tally -------------------------------------------------
\* calcularTotais has returned resultados for votos, candidatasValidas, pesos.
TallyRan == program = "tallying" /\ call.op = "calcularTotais"

\* The weight of rank position i (1-based): 0 beyond the weight list.
WeightAt(i) == IF i <= Len(pesos) THEN pesos[i] ELSE 0

\* The positions <<ballot, rank>> at which nome appears, in the ballots of
\* the set ks.
Appearances(nome, ks) ==
    UNION {{<<k, i>> : i \in {j \in 1..Len(votos[k]) : votos[k][j] = nome}} : k \in ks}

RECURSIVE SumWeights(_)
SumWeights(positions) ==
    IF positions = {} THEN 0
    ELSE LET x == CHOOSE y \in positions : TRUE
         IN  WeightAt(x[2]) + SumWeights(positions \ {x})

AllBallots == 1..Len(votos)
ValidNames == {candidatasValidas[i] : i \in 1..Len(candidatasValidas)}
ResultEntries == {resultados[i] : i \in 1..Len(resultados)}

\* C21: the total returned for a valid candidate is the sum of weights[i]
\* over the positions i of all ballots where the candidate appears, positions
\* at or beyond the length of the weight list adding 0; every valid candidate
\* that appears at a weighted position has such an entry.
C21_FlatTotals ==
    TallyRan =>
        /\ \A e \in ResultEntries :
              e.Nome \in ValidNames /\ e.Votos = SumWeights(Appearances(e.Nome, AllBallots))
        /\ \A nome \in ValidNames :
              SumWeights(Appearances(nome, AllBallots)) > 0 =>
                  \E e \in ResultEntries : e.Nome = nome

\* The totals of main's sample run with weights [3,2,1].
SampleTotals ==
    {[Nome |-> "Monica Benicio (PSOL)", Votos |-> 5],
     [Nome |-> "Tainá de Paula (PT)", Votos |-> 4],
     [Nome |-> "Thais Ferreira (PSOL)", Votos |-> 3],
     [Nome |-> "Tatiana Roque (PSB)", Votos |-> 3],
     [Nome |-> "Rosa Fernandes (PSD)", Votos |-> 3],
     [Nome |-> "Joyce Trindade (PSD)", Votos |-> 2],
     [Nome |-> "Vera Lins (PP)", Votos |-> 2],
     [Nome |-> "Maíra do MST (PT)", Votos |-> 1],
     [Nome |-> "Tânia Bastos (REPUBLICANOS)", Votos |-> 1]}

SampleRun ==
    TallyRan /\ votos = MainVotos /\ candidatasValidas = MainCandidatas /\ pesos = Pesos

\* The sample run has returned, with the nine totals of the sample.
C21_Witness == SampleRun /\ SampleTotals \subseteq ResultEntries

\* Position of nome in candidatasValidas (the candidate's identifier).
Identifier(nome) ==
    CHOOSE i \in 1..Len(candidatasValidas) :
        /\ candidatasValidas[i] = nome
        /\ \A j \in 1..(i - 1) : candidatasValidas[j] # nome

\* C22: the result is in descending order of total, and entries with equal
\* totals are in the order of the candidates' identifiers.
C22_FlatOrder ==
    TallyRan =>
        \A i, j \in 1..Len(resultados) :
            i < j =>
                \/ resultados[i].Votos > resultados[j].Votos
                \/ /\ resultados[i].Votos = resultados[j].Votos
                   /\ Identifier(resultados[i].Nome) < Identifier(resultados[j].Nome)

\* C23: the result has an entry only for candidates that received weight;
\* for the sample run it is exactly the nine candidates of the sample totals.
C23_OnlyWeighted ==
    TallyRan =>
        /\ \A e \in ResultEntries : e.Votos > 0
        /\ SampleRun => ResultEntries = SampleTotals

\* The ballots that hold no name outside the valid candidates.
CleanBallots ==
    {k \in AllBallots : \A i \in 1..Len(votos[k]) : votos[k][i] \in ValidNames}

\* C24: a ballot holding a name that is not a valid candidate counts for
\* nothing: every total is the weighted sum over the other ballots only, and
\* no entry is created for a name that is not valid.
C24_InvalidBallotExcluded ==
    TallyRan =>
        \A e \in ResultEntries :
            e.Nome \in ValidNames /\ e.Votos = SumWeights(Appearances(e.Nome, CleanBallots))

\* ---- frame of the count, setup, access control ---------------------------
\* The candidates' names, in roster order.
CcNames(cs) == [i \in 1..Len(cs) |-> cs[i].Name]
SvNames(cs) == [i \in 1..Len(cs) |-> cs[i].name]

\* C25: a count that is about to return leaves the election's roster (the
\* number and names of the candidates) and its configured seat count as they
\* were when the count started.
C25_CountKeepsRosterAndSeats ==
    /\ (program = "chaincode" /\ pc = "put") =>
          /\ CcNames(election.Candidates) = CcNames(Stored.Candidates)
          /\ election.Seats = Stored.Seats
    /\ (program = "STVVote" /\ pc = "return") =>
          /\ SvNames(candidates) = SvNames(checkpoint[1].candidates)
          /\ seats = checkpoint[1].seats

\* C26: no election is ever stored with a seat count below 1 or above the
\* number of its candidates.
C26_SeatCountValid ==
    (program = "chaincode" /\ ledger # {}) =>
        (Stored.Seats >= 1 /\ Stored.Seats <= Len(Stored.Candidates))

\* A step that is a call of countVotes() or calculateSTVTally().
CountCall == pc = "idle" /\ call'.op \in {"countVotes", "calculateSTVTally"}

NotOwnerError == IF program = "STVVote" THEN ErrSvNotAuthorized ELSE ErrScOnlyOwner

C27_Step ==
    (CountCall /\ call'.who # owner) =>
        /\ ret' = NotOwnerError
        /\ retval' = NoValue
        /\ pc' = "idle"
        /\ UNCHANGED <<owner, candidates, totalVotes, ballots, seats, voters, quorum>>

\* C27: countVotes() and calculateSTVTally() sent by an address other than
\* the deployer revert with the contract's only-owner error, start no count,
\* return no value and leave the storage unchanged, whatever has been voted.
C27_OnlyOwnerCounts == [][C27_Step]_vars

\* A tally asked for by a non-owner, on votes that meet the quorum, has been
\* refused.
C27_Witness ==
    /\ program = "STVContract" /\ call.op = "calculateSTVTally"
    /\ call.who # owner /\ ret = ErrScOnlyOwner
    /\ candidates # <<>> /\ quorum >= 1 /\ totalVotes >= quorum

\* ---- calculateSTVTally ---------------------------------------------------
\* A step that is a call of calculateSTVTally() by the owner.
OwnerTally == pc = "idle" /\ call'.op = "calculateSTVTally" /\ call'.who = owner

C28_Step ==
    OwnerTally =>
        /\ totalVotes < quorum => ret' = ErrScQuorum
        /\ totalVotes >= quorum => (ret' = Nil /\ retval' # NoValue)
        /\ UNCHANGED <<voters, candidates, totalVotes>>

\* C28: the owner's calculateSTVTally fails with "Quorum não atingido" when
\* totalVotes < quorum, returns a result when totalVotes >= quorum, and never
\* changes voters, candidates or totalVotes.
C28_QuorumDecides == [][C28_Step]_vars

\* Number of addresses that voted and rank candidate i (1-based) first.
FirstVotes(i) ==
    Cardinality({a \in Voters : /\ voters[a].voted
                                /\ voters[a].preferences # <<>>
                                /\ voters[a].preferences[1] = i - 1})

\* Candidate w has the largest number of first preferences, and is the
\* lowest-indexed candidate that has it.
FirstPastThePost(w) ==
    /\ \A c \in 1..Len(candidates) : FirstVotes(c) <= FirstVotes(w)
    /\ \A c \in 1..(w - 1) : FirstVotes(c) < FirstVotes(w)

C29_Step ==
    (OwnerTally /\ totalVotes >= quorum /\ ret' = Nil) =>
        \E w \in 1..Len(candidates) :
            /\ retval' = <<candidates[w].name>>
            /\ FirstPastThePost(w)

C30_Step ==
    (pc = "idle" /\ call'.op = "GetElectionResults" /\ ledger # {}) =>
        /\ ret' = Nil
        /\ Len(retval') = 1
        /\ Len(retval'[1]) = Len(Stored.Candidates)
        /\ \A i \in 1..Len(Stored.Candidates) :
              /\ retval'[1][i].Name = Stored.Candidates[i].Name
              /\ retval'[1][i].VoteCount = Stored.Candidates[i].VoteCount
        /\ ledger' = ledger

\* C30: GetElectionResults on a stored election returns one entry per roster
\* candidate, in roster order, each with the candidate's name and the vote
\* count stored for it, and leaves the stored election as it was.
C30_ResultsAreStoredCounts == [][C30_Step]_vars

\* GetElectionResults has returned a list in which one candidate has a
\* stored count above zero and another a count of zero.
C30_Witness ==
    /\ program = "chaincode" /\ call.op = "GetElectionResults" /\ ret = Nil
    /\ retval # NoValue
    /\ \E i, j \in 1..Len(retval[1]) :
          retval[1][i].VoteCount > 0 /\ retval[1][j].VoteCount = 0

\* ---- the result of a count -----------------------------------------------
\* The candidates a first count elects in its first round: those ranked
\* first by at least a quota of the ballots.
FirstRoundElected == {c \in 1..RosterSize : FirstChoices(c) >= quota}

\* A first chaincode count is about to store its result after a single
\* round, in which it filled every seat.
OneRoundCount ==
    /\ FreshCount /\ pc = "put" /\ quota >= 1
    /\ Cardinality(FirstRoundElected) = election.Seats

\* The roster identifier of the candidate called name.
IdOf(name) == CHOOSE c \in 1..RosterSize : election.Candidates[c].Name = name

\* C31: the result a count stores lists the elected candidates first, and
\* after them the other candidates in descending order of final total, ties
\* by lowest identifier.
C31_ResultOrder ==
    [][(OneRoundCount /\ pc' = "idle") =>
          LET r == Stored'.Candidates
              WasElected(i) == IdOf(r[i].Name) \in FirstRoundElected
          IN  \A i, j \in 1..Len(r) :
                 i < j =>
                    /\ WasElected(j) => WasElected(i)
                    /\ (~WasElected(i) /\ ~WasElected(j)) =>
                          \/ r[i].VoteCount > r[j].VoteCount
                          \/ /\ r[i].VoteCount = r[j].VoteCount
                             /\ IdOf(r[i].Name) < IdOf(r[j].Name)]_vars

\* C32: the result a count stores reports every candidate that was awarded
\* a seat with a total of at least the quota, and every other candidate with
\* the number of ballots assigned to it.
C32_FinalTotals ==
    [][(OneRoundCount /\ pc' = "idle") =>
          \A c \in 1..RosterSize :
             IF c \in FirstRoundElected
             THEN Stored'.Candidates[c].VoteCount >= quota
             ELSE Stored'.Candidates[c].VoteCount = FirstChoices(c)]_vars

\* C33: a candidate elected in the first round of a count is not elected
\* again by a later election check of the same count.
C33_ElectedOnce ==
    [][(FreshCount /\ ElectionCheck /\ quota >= 1 /\ seatsRemaining < election.Seats) =>
          ElectedInPass \cap FirstRoundElected = {}]_vars

\* ---- the ledger record across operations ---------------------------------
\* The voters of the stored ballots.
StoredVoters == {Stored.Ballots[i].Voter : i \in 1..Len(Stored.Ballots)}

C36_Step ==
    /\ VoteStep =>
          IF ret' = Nil
          THEN /\ \E w \in Voters :
                     w = call'.who /\ NumBallots(w) = 0 /\ NumBallots(w)' = 1
               /\ TotalRecorded' = TotalRecorded + 1
          ELSE NothingRecorded
    /\ (pc = "idle" /\ call'.op = "InitElection") =>
          (TotalRecorded' = 0 /\ \A w \in Voters : NumBallots(w)' = 0)

\* C36: the vote total always equals the number of recorded ballots, which
\* is the number of distinct voters holding one; each successful submission
\* adds one ballot of a voter who had none and one to the total, a rejected
\* submission changes neither, and InitElection starts again from none.
C36_TotalIsBallotCount ==
    /\ []((program = "chaincode" /\ ledger # {}) =>
             /\ Stored.TotalVotes = Len(Stored.Ballots)
             /\ Len(Stored.Ballots) = Cardinality(StoredVoters))
    /\ [](TotalRecorded = Cardinality({w \in Voters : NumBallots(w) >= 1}))
    /\ [][C36_Step]_vars

\* A count has returned on an election holding the ballots of two voters.
C36_Witness ==
    /\ program = "chaincode" /\ pc = "idle" /\ ledger # {}
    /\ call.op = "CountVotes" /\ ret = Nil
    /\ Stored.TotalVotes = 2 /\ StoredVoters = Voters

\* C37: a successful CastVote(v, p) appends the ballot (v, p, Voted = true)
\* to the stored ballots and adds one to TotalVotes, leaving the candidates,
\* their vote counts, the seat count and the ballots already stored as they
\* were; a CastVote that returns an error leaves the ledger as it was.
C37_CastVoteFrame ==
    [][\A v \in Voters, p \in PrefChoices :
          CastVote(v, p) =>
              IF ret' = Nil
              THEN /\ ledger # {} /\ ledger' # {}
                   /\ Stored'.Ballots =
                         Append(Stored.Ballots, [Voter |-> v, Preferences |-> p, Voted |-> TRUE])
                   /\ Stored'.TotalVotes = Stored.TotalVotes + 1
                   /\ Stored'.Candidates = Stored.Candidates
                   /\ Stored'.Seats = Stored.Seats
              ELSE ledger' = ledger]_vars

\* A second voter's CastVote has succeeded on an election of two candidates
\* that already held a ballot.
C37_Witness ==
    /\ program = "chaincode" /\ pc = "idle" /\ ledger # {}
    /\ call.op = "CastVote" /\ ret = Nil
    /\ Len(Stored.Ballots) = 2 /\ Len(Stored.Candidates) = 2
    /\ Stored.Ballots[2].Voter = call.who

\* A step that is a call of a handler that reads the election record.
LedgerCall == pc = "idle" /\ call'.op \in {"CastVote", "CountVotes", "GetElectionResults"}

\* C38: CastVote, CountVotes and GetElectionResults called while no election
\* record exists return "election does not exist", start nothing and leave
\* the ledger empty; once an election is stored none of them returns that
\* error.
C38_NoElection ==
    /\ [][LedgerCall =>
             IF ledger = {}
             THEN ret' = ErrNoElection /\ ledger' = {} /\ pc' = "idle" /\ retval' = NoValue
             ELSE ret' # ErrNoElection]_vars
    /\ [](ledger # {} => ret # ErrNoElection)

\* CountVotes has just been refused because no election record exists.
C38_Witness ==
    /\ program = "chaincode" /\ pc = "idle" /\ ledger = {}
    /\ call.op = "CountVotes" /\ ret = ErrNoElection

\* ---- interleaved transactions --------------------------------------------
\* Transaction t has returned success.
Accepted(t) == tx[t].pc = "done" /\ tx[t].err = Nil

\* The ballot transaction t submitted.
BallotOf(t) == [Voter |-> tx[t].voter, Preferences |-> tx[t].preferences, Voted |-> TRUE]

\* No other transaction was submitted by the voter of t.
OnlyOneOfVoter(t) ==
    \A u \in Transactions \ {t} : tx[u].pc # "none" => tx[u].voter # tx[t].voter

\* C34: whatever the interleaving of the reads and writes of the election
\* record, the ballot of every CastVote that returned success is in the
\* stored election: it is not lost to a CastVote of another voter or to the
\* write-back of a CountVotes.
C34_NoLostBallot ==
    \A t \in Transactions :
        (Accepted(t) /\ OnlyOneOfVoter(t)) =>
            \E i \in 1..Len(Stored.Ballots) : Stored.Ballots[i] = BallotOf(t)

\* C35: of two CastVote transactions of the same voter, however interleaved,
\* at most one returns success, and the stored election never holds more
\* than one ballot of a voter.
C35_OneBallotPerVoter ==
    /\ \A w \in Voters : NumBallots(w) <= 1
    /\ \A t, u \in Transactions :
          (t # u /\ tx[t].voter = tx[u].voter) => ~(Accepted(t) /\ Accepted(u))
====
